---- MODULE Spec2Model ----
(***************************************************************************)
(* VLSM IPv4 subnet calculator (utils/vlsm): parseCidr,                    *)
(* calcMinPrefixForHosts and allocateVlsm, with the JavaScript number and  *)
(* string semantics they rely on.                                          *)
(*                                                                         *)
(* A JavaScript number is modelled exactly as a pair of 16-bit limbs       *)
(* [hi, lo] denoting hi * 2^16 + lo, with 0 <= lo < 2^16 and hi any        *)
(* integer (negative for negative numbers); NaN is the one value with      *)
(* lo < 0.  All values the program computes are integers below 2^53, so    *)
(* the limbs carry them without rounding.  A string is a sequence of       *)
(* one-character strings.                                                  *)
(***************************************************************************)
EXTENDS Integers, Sequences, FiniteSets, TLC

\* ------------------------------------------------------------------------
\* JavaScript numbers
\* ------------------------------------------------------------------------
Limb == 2^16

Num(hi, lo) == [hi |-> hi + (lo \div Limb), lo |-> lo % Limb]

N(i) == Num(0, i)

NaN == [hi |-> 0, lo |-> -1]

IsNaN(a) == a.lo < 0

\* value of a number known to be small
Small(a) == a.hi * Limb + a.lo

JsAdd(a, b) == IF IsNaN(a) \/ IsNaN(b) THEN NaN ELSE Num(a.hi + b.hi, a.lo + b.lo)

JsSub(a, b) == IF IsNaN(a) \/ IsNaN(b) THEN NaN ELSE Num(a.hi - b.hi, a.lo - b.lo)

JsLt(a, b) ==
    /\ ~IsNaN(a)
    /\ ~IsNaN(b)
    /\ (a.hi < b.hi \/ (a.hi = b.hi /\ a.lo < b.lo))

JsGt(a, b) == JsLt(b, a)

JsLe(a, b) == ~IsNaN(a) /\ ~IsNaN(b) /\ ~JsLt(b, a)

JsGe(a, b) == JsLe(b, a)

\* x >>> 0
ToUint32(a) == IF IsNaN(a) THEN N(0) ELSE [hi |-> a.hi % Limb, lo |-> a.lo]

\* the signed 32-bit operand and result of << and &
ToInt32(a) ==
    LET u == ToUint32(a)
    IN  IF u.hi >= Limb \div 2 THEN [hi |-> u.hi - Limb, lo |-> u.lo] ELSE u

\* the shift count of << and >>>: ToUint32(count) & 31
ShiftCount(s) == ToUint32(s).lo % 32

\* a << s
JsShl(a, s) ==
    LET u == ToUint32(a)
        k == ShiftCount(s)
    IN  IF k >= 16
        THEN ToInt32([hi |-> (u.lo * 2^(k - 16)) % Limb, lo |-> 0])
        ELSE ToInt32([hi |-> (u.hi * 2^k + ((u.lo * 2^k) \div Limb)) % Limb,
                      lo |-> (u.lo * 2^k) % Limb])

\* a >>> s
JsShr(a, s) ==
    LET u == ToUint32(a)
        k == ShiftCount(s)
    IN  IF k >= 16
        THEN [hi |-> 0, lo |-> u.hi \div 2^(k - 16)]
        ELSE [hi |-> u.hi \div 2^k,
              lo |-> (u.hi % 2^k) * 2^(16 - k) + (u.lo \div 2^k)]

RECURSIVE And16(_, _, _)
And16(x, y, bits) ==
    IF bits = 0 THEN 0
    ELSE (x % 2) * (y % 2) + 2 * And16(x \div 2, y \div 2, bits - 1)

\* a & b
JsAnd(a, b) ==
    LET u == ToUint32(a)
        v == ToUint32(b)
    IN  ToInt32([hi |-> And16(u.hi, v.hi, 16), lo |-> And16(u.lo, v.lo, 16)])

\* ~a
JsNot(a) == LET i == ToInt32(a) IN Num(-i.hi - 1, Limb - 1 - i.lo)

\* 2 ** e, for the exponents 32 - prefix the program uses
JsPow2(e) ==
    IF IsNaN(e) THEN NaN
    ELSE IF Small(e) >= 16 THEN [hi |-> 2^(Small(e) - 16), lo |-> 0]
    ELSE [hi |-> 0, lo |-> 2^Small(e)]

AllOnes == [hi |-> Limb - 1, lo |-> Limb - 1]

\* Math.ceil(a / b) * b, b a power of two 2^k with 0 <= k <= 32 (every block
\* size is 2 ** (32 - prefix)); the quotient is exact in double precision
CeilMul(a, b) ==
    IF IsNaN(a) \/ IsNaN(b) THEN NaN
    ELSE LET k == CHOOSE e \in 0..32 : JsPow2(N(e)) = b
             floor == IF k >= 16
                      THEN [hi |-> a.hi - (a.hi % 2^(k - 16)), lo |-> 0]
                      ELSE [hi |-> a.hi, lo |-> a.lo - (a.lo % 2^k)]
         IN  IF floor = a THEN a ELSE JsAdd(floor, b)

\* ------------------------------------------------------------------------
\* JavaScript strings
\* ------------------------------------------------------------------------
Digits == <<"0", "1", "2", "3", "4", "5", "6", "7", "8", "9">>

IsDigit(c) == \E i \in 1..10 : Digits[i] = c

DigitVal(c) == (CHOOSE i \in 1..10 : Digits[i] = c) - 1

RECURSIVE DecNat(_)
DecNat(n) == IF n < 10 THEN <<Digits[n + 1]>> ELSE DecNat(n \div 10) \o <<Digits[(n % 10) + 1]>>

\* String(x) of an integer number below 2^31, or of NaN
NumToString(a) ==
    IF IsNaN(a) THEN <<"N", "a", "N">>
    ELSE IF a.hi < 0 THEN <<"-">> \o DecNat(-Small(a))
    ELSE DecNat(Small(a))

RECURSIVE SplitAcc(_, _, _)
SplitAcc(s, sep, cur) ==
    IF s = <<>> THEN <<cur>>
    ELSE IF Head(s) = sep THEN <<cur>> \o SplitAcc(Tail(s), sep, <<>>)
    ELSE SplitAcc(Tail(s), sep, Append(cur, Head(s)))

\* s.split(sep), sep one character
Split(s, sep) == SplitAcc(s, sep, <<>>)

RECURSIVE Join(_, _)
\* parts.join(sep)
Join(parts, sep) ==
    IF parts = <<>> THEN <<>>
    ELSE IF Len(parts) = 1 THEN parts[1]
    ELSE parts[1] \o <<sep>> \o Join(Tail(parts), sep)

RECURSIVE SkipSpace(_)
SkipSpace(s) == IF s # <<>> /\ Head(s) = " " THEN SkipSpace(Tail(s)) ELSE s

RECURSIVE DigitRun(_, _)
\* the value of the longest prefix of digits of s, continuing from acc
DigitRun(s, acc) ==
    IF s = <<>> \/ ~IsDigit(Head(s)) THEN acc
    ELSE DigitRun(Tail(s), Num(acc.hi * 10, acc.lo * 10 + DigitVal(Head(s))))

\* parseInt(s, 10): leading blanks, an optional sign, then digits up to the
\* first character that is not one; NaN when there is no digit
ParseInt(s) ==
    LET t == SkipSpace(s)
        neg == t # <<>> /\ Head(t) = "-"
        u == IF t # <<>> /\ Head(t) \in {"-", "+"} THEN Tail(t) ELSE t
    IN  IF u = <<>> \/ ~IsDigit(Head(u)) THEN NaN
        ELSE IF neg THEN JsSub(N(0), DigitRun(u, N(0)))
        ELSE DigitRun(u, N(0))

\* ------------------------------------------------------------------------
\* VLSM utility functions (IPv4)
\* ------------------------------------------------------------------------
RECURSIVE ipReduce(_, _)
\* octets.reduce((acc, octet) => (acc << 8) + parseInt(octet, 10), acc)
ipReduce(octets, acc) ==
    IF octets = <<>> THEN acc
    ELSE ipReduce(Tail(octets), JsAdd(JsShl(acc, N(8)), ParseInt(Head(octets))))

ipToInt(ip) == ToUint32(ipReduce(Split(ip, "."), N(0)))

intToIp(int) ==
    Join([i \in 1..4 |->
            NumToString(JsAnd(JsShr(int, N(<<24, 16, 8, 0>>[i])), N(255)))], ".")

prefixMask(prefix) ==
    IF prefix = N(0) THEN N(0) ELSE ToUint32(JsShl(AllOnes, JsSub(N(32), prefix)))

maskFromPrefix(prefix) == intToIp(prefixMask(prefix))

wildcardFromPrefix(prefix) == intToIp(ToUint32(JsNot(prefixMask(prefix))))

Return(v) == [threw |-> FALSE, value |-> v, error |-> ""]

Throw(msg) == [threw |-> TRUE, value |-> <<>>, error |-> msg]

\* line 44: the range test on the parsed prefix
prefixOutOfRange(prefix) == JsLt(prefix, N(0)) \/ JsGt(prefix, N(32))

\* line 45: the network address, host bits cleared
networkOf(addr, prefix) == JsAnd(addr, prefixMask(prefix))

parseCidr(cidr) ==
    LET parts == Split(cidr, "/")
    IN  IF Len(parts) # 2 THEN Throw("Invalid CIDR")
        ELSE
        LET ip == parts[1]
            prefix == ParseInt(parts[2])
        IN  IF prefixOutOfRange(prefix) THEN Throw("Invalid prefix")
            ELSE
            LET networkInt == networkOf(ipToInt(ip), prefix)
                total == JsPow2(JsSub(N(32), prefix))
                broadcastInt == ToUint32(JsSub(JsAdd(networkInt, total), N(1)))
            IN  Return([networkInt |-> networkInt, prefix |-> prefix,
                        total |-> total, broadcastInt |-> broadcastInt])

usableHosts_noSingle(prefix, total) ==
    IF prefix = 31 THEN N(0) ELSE JsSub(total, N(2))

usableHosts_allAddresses(prefix, total) ==
    IF prefix = 32 THEN N(1) ELSE IF prefix = 31 THEN N(0) ELSE total

\* line 56: usable hosts of a block of `total` addresses at `prefix`
usableHosts(prefix, total) ==
    IF prefix = 32 THEN N(1) ELSE IF prefix = 31 THEN N(0) ELSE JsSub(total, N(2))

RECURSIVE scanPrefix(_, _)
\* lines 54-59: for (let prefix = 32; prefix >= 0; prefix--)
scanPrefix(prefix, hosts) ==
    IF prefix < 0 THEN Throw("cannot satisfy host count")
    ELSE LET total == JsPow2(N(32 - prefix))
             usable == usableHosts(prefix, total)
         IN  IF JsGe(usable, hosts) THEN Return(prefix)
             ELSE scanPrefix(prefix - 1, hosts)

calcMinPrefixForHosts(hosts) ==
    IF IsNaN(hosts) \/ JsLt(hosts, N(0)) THEN Throw("hosts must be non-negative integer")
    ELSE IF hosts = N(0) THEN Return(32)
    ELSE scanPrefix(32, hosts)

\* lines 65-81: the broadcast, usable count, first and last usable address
broadcastOf_offByOne(networkInt, total) == ToUint32(JsAdd(networkInt, total))

broadcastOf(networkInt, total) == ToUint32(JsSub(JsAdd(networkInt, total), N(1)))

usableOf(prefix, total) ==
    IF prefix = 32 THEN N(1) ELSE IF prefix = 31 THEN N(0) ELSE JsSub(total, N(2))

firstOf(networkInt, prefix) ==
    IF prefix = 32 \/ prefix = 31 THEN intToIp(networkInt)
    ELSE intToIp(ToUint32(JsAdd(networkInt, N(1))))

lastOf_broadcast(networkInt, prefix, broadcast) ==
    IF prefix = 32 THEN intToIp(networkInt) ELSE intToIp(broadcast)

lastOf(networkInt, prefix, broadcast) ==
    IF prefix = 32 THEN intToIp(networkInt)
    ELSE IF prefix = 31 THEN intToIp(broadcast)
    ELSE intToIp(ToUint32(JsSub(broadcast, N(1))))

broadcastText(networkInt, prefix, broadcast) ==
    IF prefix = 32 THEN intToIp(networkInt) ELSE intToIp(broadcast)

\* line 85
wastedOf(total, requestedHosts) == JsSub(total, requestedHosts)

subnetInfo(networkInt, prefix, requestedHosts) ==
    LET total == JsPow2(N(32 - prefix))
        broadcast == broadcastOf(networkInt, total)
    IN  [network |-> intToIp(networkInt),
         prefix |-> prefix,
         cidr |-> intToIp(networkInt) \o <<"/">> \o NumToString(N(prefix)),
         subnet_mask |-> maskFromPrefix(N(prefix)),
         wildcard_mask |-> wildcardFromPrefix(N(prefix)),
         total_addresses |-> total,
         usable_hosts |-> usableOf(prefix, total),
         requested_hosts |-> requestedHosts,
         first_usable |-> firstOf(networkInt, prefix),
         last_usable |-> lastOf(networkInt, prefix, broadcast),
         broadcast |-> broadcastText(networkInt, prefix, broadcast),
         wasted_addresses |-> wastedOf(total, requestedHosts)]

RECURSIVE resolveReqs(_)
\* lines 109-114: hostRequirements.slice().map(h => ...), array order
resolveReqs(hs) ==
    IF hs = <<>> THEN Return(<<>>)
    ELSE LET h == Head(hs)
         IN  IF IsNaN(h) \/ JsLe(h, N(0))
             THEN Throw("host requirements must be positive integers")
             ELSE LET p == calcMinPrefixForHosts(h)
                  IN  IF p.threw THEN p
                      ELSE LET rest == resolveReqs(Tail(hs))
                           IN  IF rest.threw THEN rest
                               ELSE Return(<<[requested |-> h, prefix |-> p.value,
                                              block |-> JsPow2(N(32 - p.value))]>>
                                           \o rest.value)

compareReqs_ascending(a, b) ==
    LET d == JsSub(a.requested, b.requested)
    IN  IF d # N(0) THEN d ELSE N(a.prefix - b.prefix)

\* line 114: b.requested - a.requested || a.prefix - b.prefix
compareReqs(a, b) ==
    LET d == JsSub(b.requested, a.requested)
    IN  IF d # N(0) THEN d ELSE N(a.prefix - b.prefix)

RECURSIVE insertReq(_, _)
\* r goes after every element that does not compare greater than it
insertReq(sorted, r) ==
    IF sorted = <<>> THEN <<r>>
    ELSE IF JsGt(compareReqs(Head(sorted), r), N(0)) THEN <<r>> \o sorted
    ELSE <<Head(sorted)>> \o insertReq(Tail(sorted), r)

RECURSIVE sortReqs(_)
\* Array.prototype.sort with the comparator of line 114 (stable)
sortReqs(rs) ==
    IF rs = <<>> THEN <<>>
    ELSE insertReq(sortReqs(SubSeq(rs, 1, Len(rs) - 1)), rs[Len(rs)])

RECURSIVE sumBlocksOf(_)
\* line 116: reqs.reduce((s, r) => s + r.block, 0)
sumBlocksOf(rs) ==
    IF rs = <<>> THEN N(0) ELSE JsAdd(sumBlocksOf(SubSeq(rs, 1, Len(rs) - 1)), rs[Len(rs)].block)

capacityExceeded_orEqual(sumBlocks, total) == JsGe(sumBlocks, total)

\* line 117
capacityExceeded(sumBlocks, total) == JsGt(sumBlocks, total)

\* line 124
alignStart(cur, boundary) == ToUint32(CeilMul(cur, boundary))

\* line 125
pastPrimaryEnd(alignedStart, block, primaryEnd) ==
    JsGt(ToUint32(JsSub(JsAdd(alignedStart, block), N(1))), primaryEnd)

\* line 134
advance(alignedStart, block) == ToUint32(JsAdd(alignedStart, block))

\* lines 138-146
overlapFound(allocs) ==
    \E i \in 1..Len(allocs) : \E j \in (i + 1)..Len(allocs) :
        LET aStart == ipToInt(allocs[i].network)
            aEnd == JsSub(JsAdd(aStart, allocs[i].total_addresses), N(1))
            bStart == ipToInt(allocs[j].network)
            bEnd == JsSub(JsAdd(bStart, allocs[j].total_addresses), N(1))
        IN  ~(JsLt(aEnd, bStart) \/ JsLt(bEnd, aStart))

\* ------------------------------------------------------------------------
\* Inputs the callers supply
\* ------------------------------------------------------------------------
Dotted(o) == Join([i \in 1..Len(o) |-> DecNat(o[i])], ".")

Cidr(o, p) == Dotted(o) \o <<"/">> \o DecNat(p)

\* longest host list explored exhaustively
MaxReqs == 3

\* addresses of the well-formed CIDR texts explored, with every prefix
Addresses ==
    {<<0, 0, 0, 0>>, <<10, 0, 0, 0>>, <<10, 1, 2, 3>>, <<127, 255, 255, 255>>,
     <<128, 0, 0, 0>>, <<172, 16, 5, 77>>, <<192, 168, 0, 5>>, <<192, 168, 1, 0>>,
     <<255, 255, 255, 0>>, <<255, 255, 255, 255>>}

WellFormedCidrs == {Cidr(a, p) : a \in Addresses, p \in 0..32}

\* address texts that are not 4 octets in [0, 255]
BadAddressTexts ==
    {Dotted(<<192, 168, 0>>), Dotted(<<192, 168, 0, 0, 1>>), Dotted(<<300, 1, 1, 1>>),
     Dotted(<<1, 2, 3, 256>>), <<"a", ".", "b", ".", "c", ".", "d">>,
     <<"1", "0", ".", "x", ".", "0", ".", "7">>, <<"1", "0", ".", "0", ".", "0", ".">>,
     <<"-", "1", ".", "0", ".", "0", ".", "0">>, <<>>}

\* prefix texts that are not an integer in [0, 32]
BadPrefixTexts ==
    {<<>>, <<"a", "b", "c">>, <<" ">>, <<"-", "1">>, <<"3", "3">>, <<"1", "0", "0">>,
     <<"-">>, <<"x", "8">>}

MalformedCidrs ==
    {Dotted(a) \o <<"/">> \o t : a \in {<<192, 168, 0, 0>>, <<0, 0, 0, 0>>}, t \in BadPrefixTexts}
    \cup {t \o <<"/">> \o DecNat(p) : t \in BadAddressTexts, p \in {0, 8, 24, 32}}
    \cup {Dotted(<<10, 0, 0, 0>>), Cidr(<<10, 0, 0, 0>>, 8) \o <<"/", "8">>}

CidrTexts == WellFormedCidrs \cup MalformedCidrs

\* host counts handed to calcMinPrefixForHosts: the small ones and those
\* around every block size
HostCounts ==
    {N(h) : h \in 0..20} \cup {N(-1), N(-5), NaN, N(50), N(1000), N(2000)}
    \cup {JsSub(JsPow2(N(k)), N(d)) : k \in 2..32, d \in 0..4}

\* primaries and host counts allocateVlsm is explored on exhaustively
AllocPrimaries ==
    {Cidr(<<192, 168, 0, 5>>, 26), Cidr(<<192, 168, 1, 0>>, 30),
     Cidr(<<10, 0, 0, 0>>, 27), Cidr(<<10, 1, 2, 3>>, 32), Cidr(<<10, 1, 2, 3>>, 31),
     Cidr(<<127, 255, 255, 255>>, 25), Cidr(<<255, 255, 255, 255>>, 28),
     Cidr(<<255, 255, 255, 0>>, 24), Cidr(<<0, 0, 0, 0>>, 29)}

AllocHosts == {N(1), N(2), N(6), N(14), N(30), N(62)}

RECURSIVE SeqsUpTo(_, _)
SeqsUpTo(S, n) ==
    IF n = 0 THEN {<<>>}
    ELSE LET shorter == SeqsUpTo(S, n - 1)
         IN  shorter \cup {Append(q, e) : q \in {r \in shorter : Len(r) = n - 1}, e \in S}

\* further calls: the documented scenarios, invalid host counts, the whole
\* address space, malformed primaries
ScenarioCalls ==
    {<<Cidr(<<192, 168, 0, 0>>, 24), <<N(50), N(20), N(10)>>>>,
     <<Cidr(<<10, 0, 0, 0>>, 16), <<N(1000), N(2000), N(50)>>>>,
     <<Cidr(<<192, 168, 1, 0>>, 30), <<N(2)>>>>,
     <<Cidr(<<192, 168, 1, 0>>, 30), <<N(3)>>>>,
     <<Cidr(<<192, 168, 0, 0>>, 24), <<N(50), N(0)>>>>,
     <<Cidr(<<192, 168, 0, 0>>, 24), <<N(-1)>>>>,
     <<Cidr(<<192, 168, 0, 0>>, 24), <<NaN, N(5)>>>>,
     <<Cidr(<<0, 0, 0, 0>>, 0), <<JsSub(JsPow2(N(32)), N(1))>>>>,
     <<Cidr(<<0, 0, 0, 0>>, 0), <<JsSub(JsPow2(N(32)), N(2))>>>>,
     <<Cidr(<<10, 1, 2, 3>>, 0), <<JsSub(JsPow2(N(31)), N(2)), JsSub(JsPow2(N(31)), N(2))>>>>,
     <<Cidr(<<10, 1, 2, 3>>, 0), <<N(1000), JsSub(JsPow2(N(31)), N(2)), N(50)>>>>,
     <<Cidr(<<200, 1, 2, 3>>, 1), <<JsSub(JsPow2(N(30)), N(2)), JsSub(JsPow2(N(30)), N(2))>>>>,
     <<Cidr(<<200, 1, 2, 3>>, 1), <<JsSub(JsPow2(N(31)), N(2)), N(1)>>>>}
    \cup {<<c, hs>> : c \in {Dotted(<<192, 168, 0, 0>>) \o <<"/">>,
                             Dotted(<<0, 0, 0, 0>>) \o <<"/", "x">>,
                             Dotted(<<192, 168, 0>>) \o <<"/", "2", "4">>,
                             Dotted(<<300, 1, 1, 1>>) \o <<"/", "2", "4">>,
                             <<"a", ".", "b", ".", "c", ".", "d", "/", "2", "4">>,
                             Dotted(<<10, 0, 0, 0>>) \o <<"/", "3", "3">>,
                             Dotted(<<10, 0, 0, 0>>)},
                      hs \in {<<N(1)>>, <<N(2)>>, <<N(6), N(2)>>}}

\* arguments subnetInfo is applied to on its own: every prefix, networks
\* aligned to the prefix as allocateVlsm passes them
SubnetInfoArgs ==
    {[networkInt |-> ToUint32(networkOf(ipToInt(Dotted(a)), N(p))), prefix |-> p] :
        a \in Addresses, p \in 0..32}

AllocCalls == (AllocPrimaries \X SeqsUpTo(AllocHosts, MaxReqs)) \cup ScenarioCalls

\* ------------------------------------------------------------------------
\* The calls as a state machine
\* ------------------------------------------------------------------------
VARIABLES
    pc,           \* "idle" before a call, "loop" inside allocateVlsm, "done" after it
    fn,           \* the entry point last called
    cidr,         \* its CIDR text argument
    hosts,        \* its host count arguments
    primary,      \* allocateVlsm: parseCidr(primaryCidr)
    reqs,         \* allocateVlsm: the resolved, sorted requirements
    idx,          \* allocateVlsm: position of the for-of loop in reqs
    current,      \* allocateVlsm: the cursor
    allocations,  \* allocateVlsm: the records built so far
    subnetArgs,   \* subnetInfo called on its own: its networkInt and prefix
    result        \* what the last call returned or threw; "pending" while running

vars == <<pc, fn, cidr, hosts, primary, reqs, idx, current, allocations, subnetArgs, result>>

Pending == [threw |-> FALSE, value |-> <<>>, error |-> "pending"]

NoPrimary == [networkInt |-> N(0), prefix |-> N(0), total |-> N(0), broadcastInt |-> N(0)]

NoSubnetArgs == [networkInt |-> N(0), prefix |-> 0]

Init ==
    /\ pc = "idle"
    /\ fn = "none"
    /\ cidr = <<>>
    /\ hosts = <<>>
    /\ primary = NoPrimary
    /\ reqs = <<>>
    /\ idx = 1
    /\ current = N(0)
    /\ allocations = <<>>
    /\ subnetArgs = NoSubnetArgs
    /\ result = Pending

ClearLocals ==
    /\ primary' = NoPrimary
    /\ reqs' = <<>>
    /\ idx' = 1
    /\ current' = N(0)
    /\ allocations' = <<>>
    /\ subnetArgs' = NoSubnetArgs

\* a caller invokes parseCidr(text)
CallParseCidr(text) ==
    /\ pc = "idle"
    /\ pc' = "done"
    /\ fn' = "parseCidr"
    /\ cidr' = text
    /\ hosts' = <<>>
    /\ ClearLocals
    /\ result' = parseCidr(text)

\* a caller invokes calcMinPrefixForHosts(h)
CallCalcMinPrefixForHosts(h) ==
    /\ pc = "idle"
    /\ pc' = "done"
    /\ fn' = "calcMinPrefixForHosts"
    /\ cidr' = <<>>
    /\ hosts' = <<h>>
    /\ ClearLocals
    /\ result' = calcMinPrefixForHosts(h)

\* subnetInfo(networkInt, prefix, requestedHosts) applied on its own
CallSubnetInfo(a, r) ==
    /\ pc = "idle"
    /\ pc' = "done"
    /\ fn' = "subnetInfo"
    /\ cidr' = <<>>
    /\ hosts' = <<r>>
    /\ primary' = NoPrimary
    /\ reqs' = <<>>
    /\ idx' = 1
    /\ current' = N(0)
    /\ allocations' = <<>>
    /\ subnetArgs' = a
    /\ result' = Return(subnetInfo(a.networkInt, a.prefix, r))

\* allocateVlsm, lines 104-120: parse, resolve, sort, capacity pre-check
AllocateBegin(text, hs) ==
    /\ pc = "idle"
    /\ fn' = "allocateVlsm"
    /\ cidr' = text
    /\ hosts' = hs
    /\ idx' = 1
    /\ allocations' = <<>>
    /\ subnetArgs' = NoSubnetArgs
    /\ LET p == parseCidr(text)
           rs == resolveReqs(hs)
       IN  IF p.threw
           THEN /\ result' = p
                /\ pc' = "done"
                /\ primary' = NoPrimary
                /\ reqs' = <<>>
                /\ current' = N(0)
           ELSE IF rs.threw
           THEN /\ result' = rs
                /\ pc' = "done"
                /\ primary' = p.value
                /\ reqs' = <<>>
                /\ current' = N(0)
           ELSE IF capacityExceeded(sumBlocksOf(sortReqs(rs.value)), p.value.total)
           THEN /\ result' = Throw("Requirements need more addresses than primary has")
                /\ pc' = "done"
                /\ primary' = p.value
                /\ reqs' = sortReqs(rs.value)
                /\ current' = N(0)
           ELSE /\ result' = Pending
                /\ pc' = "loop"
                /\ primary' = p.value
                /\ reqs' = sortReqs(rs.value)
                /\ current' = p.value.networkInt

\* allocateVlsm, lines 122-135: one iteration of the placement loop
AllocateStep ==
    /\ pc = "loop"
    /\ idx <= Len(reqs)
    /\ LET r == reqs[idx]
           alignedStart == alignStart(current, r.block)
       IN  IF pastPrimaryEnd(alignedStart, r.block, primary.broadcastInt)
           THEN /\ result' = Throw("not enough space after alignment")
                /\ pc' = "done"
                /\ UNCHANGED <<idx, current, allocations>>
           ELSE IF \/ JsLt(alignedStart, primary.networkInt)
                   \/ pastPrimaryEnd(alignedStart, r.block, primary.broadcastInt)
           THEN /\ result' = Throw("Allocated network falls outside primary")
                /\ pc' = "done"
                /\ UNCHANGED <<idx, current, allocations>>
           ELSE /\ allocations' = Append(allocations, subnetInfo(alignedStart, r.prefix, r.requested))
                /\ current' = advance(alignedStart, r.block)
                /\ idx' = idx + 1
                /\ UNCHANGED <<pc, result>>
    /\ UNCHANGED <<fn, cidr, hosts, primary, reqs, subnetArgs>>

\* allocateVlsm, lines 137-148: the overlap verification and the return
AllocateFinish ==
    /\ pc = "loop"
    /\ idx > Len(reqs)
    /\ pc' = "done"
    /\ result' = IF overlapFound(allocations) THEN Throw("Overlap") ELSE Return(allocations)
    /\ UNCHANGED <<fn, cidr, hosts, primary, reqs, idx, current, allocations, subnetArgs>>

\* the call is over; nothing of it is kept for the next one
Forget ==
    /\ pc = "done"
    /\ pc' = "idle"
    /\ fn' = "none"
    /\ cidr' = <<>>
    /\ hosts' = <<>>
    /\ ClearLocals
    /\ result' = Pending

Next ==
    \/ \E text \in CidrTexts : CallParseCidr(text)
    \/ \E h \in HostCounts : CallCalcMinPrefixForHosts(h)
    \/ \E a \in SubnetInfoArgs, r \in {N(1), N(2), N(50)} : CallSubnetInfo(a, r)
    \/ \E call \in AllocCalls : AllocateBegin(call[1], call[2])
    \/ AllocateStep
    \/ AllocateFinish
    \/ Forget

Spec == Init /\ [][Next]_vars

\* ------------------------------------------------------------------------
\* Vocabulary of the properties
\* ------------------------------------------------------------------------
IsDecimal(t) == t # <<>> /\ Len(t) <= 3 /\ \A i \in 1..Len(t) : IsDigit(t[i])

RECURSIVE DecVal(_)
DecVal(t) == IF t = <<>> THEN 0 ELSE 10 * DecVal(SubSeq(t, 1, Len(t) - 1)) + DigitVal(t[Len(t)])

\* exactly 4 dot-separated decimal octets, each in [0, 255]
WellFormedAddress(t) ==
    LET o == Split(t, ".")
    IN  Len(o) = 4 /\ \A i \in 1..4 : IsDecimal(o[i]) /\ DecVal(o[i]) <= 255

\* a decimal integer in [0, 32]
WellFormedPrefix(t) == IsDecimal(t) /\ DecVal(t) <= 32

WellFormedCidr(c) ==
    LET parts == Split(c, "/")
    IN  Len(parts) = 2 /\ WellFormedAddress(parts[1]) /\ WellFormedPrefix(parts[2])

\* the unsigned 32-bit value of a well-formed address text
AddressValue(t) ==
    LET o == Split(t, ".")
    IN  Num(DecVal(o[1]) * 256 + DecVal(o[2]), DecVal(o[3]) * 256 + DecVal(o[4]))

MaxAddress == [hi |-> Limb - 1, lo |-> Limb - 1]

IsAddressValue(a) == ~IsNaN(a) /\ JsLe(N(0), a) /\ JsLe(a, MaxAddress)

\* a with its low k bits cleared, a >= 0
ClearLow(a, k) ==
    IF k >= 16 THEN [hi |-> a.hi - (a.hi % 2^(k - 16)), lo |-> 0]
    ELSE [hi |-> a.hi, lo |-> a.lo - (a.lo % 2^k)]

RECURSIVE Sum(_)
Sum(ns) == IF ns = <<>> THEN N(0) ELSE JsAdd(Head(ns), Sum(Tail(ns)))

AllocateDone == fn = "allocateVlsm" /\ pc = "done"

AllocateSucceeded == AllocateDone /\ ~result.threw

Insufficient == "Requirements need more addresses than primary has"

\* the address range of a record, from its network and broadcast texts
RangeStart(rec) == ipToInt(rec.network)

RangeEnd(rec) == ipToInt(rec.broadcast)

\* ------------------------------------------------------------------------
\* Properties
\* ------------------------------------------------------------------------

\* C1: every successful allocateVlsm call on a valid primary CIDR returns
\* records whose ranges [network, broadcast] lie inside the primary range
\* [networkStart, broadcastEnd] and are pairwise disjoint.
C1_ContainedAndDisjoint ==
    (AllocateSucceeded /\ WellFormedCidr(cidr)) =>
        LET recs == result.value
            lo == ToUint32(primary.networkInt)
            hi == primary.broadcastInt
        IN  /\ \A i \in 1..Len(recs) :
                /\ JsLe(lo, RangeStart(recs[i]))
                /\ JsLe(RangeStart(recs[i]), RangeEnd(recs[i]))
                /\ JsLe(RangeEnd(recs[i]), hi)
            /\ \A i \in 1..Len(recs) : \A j \in 1..Len(recs) :
                i # j => \/ JsLt(RangeEnd(recs[i]), RangeStart(recs[j]))
                         \/ JsLt(RangeEnd(recs[j]), RangeStart(recs[i]))

C1_Witness ==
    /\ AllocateSucceeded
    /\ WellFormedCidr(cidr)
    /\ Len(result.value) = 3
    /\ result.value[1].prefix # result.value[3].prefix
    /\ JsGe(primary.broadcastInt, JsPow2(N(31)))

\* the block size 2^(32 - derivedPrefix) of each host count of a call whose
\* host counts all resolve
HostsResolve == ~resolveReqs(hosts).threw

BlockSizes == [i \in 1..Len(hosts) |-> JsPow2(N(32 - calcMinPrefixForHosts(hosts[i]).value))]

\* C2: when the block sizes of the requirements sum to more than the primary
\* block size, allocateVlsm fails with the capacity error before placing any
\* subnet and returns no records; every successful allocation's
\* total_addresses sum to at most the primary block size.
C2_CapacityPreCheck ==
    /\ (fn = "allocateVlsm" /\ pc # "idle" /\ ~parseCidr(cidr).threw /\ HostsResolve
        /\ JsGt(Sum(BlockSizes), parseCidr(cidr).value.total)) =>
            /\ pc = "done"
            /\ result = Throw(Insufficient)
            /\ allocations = <<>>
    /\ AllocateSucceeded =>
            JsLe(Sum([i \in 1..Len(result.value) |-> result.value[i].total_addresses]),
                 primary.total)

ScenarioC == fn = "allocateVlsm" /\ pc = "done" /\ cidr = Cidr(<<192, 168, 1, 0>>, 30) /\ hosts = <<N(2)>>

\* C3 as stated: allocate("192.168.1.0/30", [2]) fails with the capacity error.
C3_ScenarioCFails == ScenarioC => result = Throw(Insufficient)

\* C3: allocate("192.168.1.0/30", [2]) succeeds with the single record
\* 192.168.1.0/30 of 4 addresses, 2 of them usable.
C3_ScenarioCSucceeds ==
    ScenarioC =>
        /\ ~result.threw
        /\ Len(result.value) = 1
        /\ result.value[1].cidr = Cidr(<<192, 168, 1, 0>>, 30)
        /\ result.value[1].total_addresses = N(4)
        /\ result.value[1].usable_hosts = N(2)
        /\ result.value[1].requested_hosts = N(2)

C3_Witness == ScenarioC /\ ~result.threw

\* usable hosts of a prefix, as the specification tabulates them
Capacity(q) == IF q = 32 THEN N(1) ELSE IF q = 31 THEN N(0) ELSE JsSub(JsPow2(N(32 - q)), N(2))

CalcMinReturned == fn = "calcMinPrefixForHosts" /\ pc = "done" /\ ~result.threw

\* C4: for every host count h >= 1 some prefix satisfies, the prefix p
\* returned by calcMinPrefixForHosts(h) has Capacity(p) >= h and, p + 1 being a
\* prefix, Capacity(p + 1) < h.
C4_MinimalPrefix ==
    (CalcMinReturned /\ JsGe(hosts[1], N(1))) =>
        LET p == result.value
            h == hosts[1]
        IN  /\ p \in 0..32
            /\ JsGe(Capacity(p), h)
            /\ p < 32 => JsLt(Capacity(p + 1), h)

C4_Witness == CalcMinReturned /\ hosts[1] = N(1000) /\ result.value = 22

C4_WitnessSingle == CalcMinReturned /\ hosts[1] = N(1) /\ result.value = 32

C4_Unsatisfiable ==
    (fn = "calcMinPrefixForHosts" /\ pc = "done" /\ JsGt(hosts[1], Capacity(0))) => result.threw

\* C5 as stated: minimalPrefixFor(0) = 32, minimalPrefixFor(1) = 30,
\* minimalPrefixFor(2) = 30.
C5_ScenarioD ==
    (fn = "calcMinPrefixForHosts" /\ pc = "done") =>
        /\ hosts[1] = N(0) => result = Return(32)
        /\ hosts[1] = N(1) => result = Return(30)
        /\ hosts[1] = N(2) => result = Return(30)

\* C5: calcMinPrefixForHosts(0) = 32, calcMinPrefixForHosts(1) = 32 (a /32
\* counts as one usable address), calcMinPrefixForHosts(2) = 30.
C5_ScenarioDAmended ==
    (fn = "calcMinPrefixForHosts" /\ pc = "done") =>
        /\ hosts[1] = N(0) => result = Return(32)
        /\ hosts[1] = N(1) => result = Return(32)
        /\ hosts[1] = N(2) => result = Return(30)

C5_Witness == fn = "calcMinPrefixForHosts" /\ pc = "done" /\ hosts[1] = N(1) /\ result = Return(32)

\* number of positions of seq holding e
Count(seq, e) == Cardinality({i \in 1..Len(seq) : seq[i] = e})

ScenarioB ==
    AllocateDone /\ cidr = Cidr(<<10, 0, 0, 0>>, 16) /\ hosts = <<N(1000), N(2000), N(50)>>

\* C6: the records of a successful allocateVlsm call are in non-increasing
\* order of requested_hosts and carry exactly the input host counts, one
\* record per input; [1000, 2000, 50] on 10.0.0.0/16 yields 10.0.0.0/21,
\* 10.0.8.0/22, 10.0.12.0/26 for 2000, 1000, 50.
C6_PlacementOrder ==
    /\ AllocateSucceeded =>
        LET recs == result.value
            req == [i \in 1..Len(recs) |-> recs[i].requested_hosts]
        IN  /\ Len(recs) = Len(hosts)
            /\ \A i \in 1..(Len(recs) - 1) : JsGe(req[i], req[i + 1])
            /\ \A i \in 1..Len(hosts) : Count(req, hosts[i]) = Count(hosts, hosts[i])
    /\ ScenarioB =>
        /\ ~result.threw
        /\ [i \in 1..Len(result.value) |-> result.value[i].cidr]
             = <<Cidr(<<10, 0, 0, 0>>, 21), Cidr(<<10, 0, 8, 0>>, 22), Cidr(<<10, 0, 12, 0>>, 26)>>
        /\ [i \in 1..Len(result.value) |-> result.value[i].requested_hosts]
             = <<N(2000), N(1000), N(50)>>

C6_Witness ==
    /\ AllocateSucceeded
    /\ Len(hosts) = 3
    /\ JsLt(hosts[1], hosts[2])
    /\ JsGt(hosts[2], hosts[3])
    /\ JsLt(hosts[1], hosts[3])

C6_WitnessScenarioB == ScenarioB /\ ~result.threw

ParseCidrDone == fn = "parseCidr" /\ pc = "done"

AddressPart(c) == Split(c, "/")[1]

PrefixPart(c) == Split(c, "/")[2]

\* C7: for every well-formed CIDR text parseCidr returns a range whose
\* networkStart is an unsigned 32-bit value, the supplied address with its
\* low 32 - prefix bits cleared, and whose broadcastEnd is
\* networkStart + blockSize - 1; "192.168.0.5/24" yields 192.168.0.0.
C7_CanonicalRange ==
    (ParseCidrDone /\ WellFormedCidr(cidr)) =>
        LET prefix == DecVal(PrefixPart(cidr))
            blockSize == JsPow2(N(32 - prefix))
        IN  /\ ~result.threw
            /\ result.value.prefix = N(prefix)
            /\ result.value.total = blockSize
            /\ IsAddressValue(result.value.networkInt)
            /\ result.value.networkInt = ClearLow(AddressValue(AddressPart(cidr)), 32 - prefix)
            /\ result.value.broadcastInt
                 = JsSub(JsAdd(result.value.networkInt, blockSize), N(1))
            /\ cidr = Cidr(<<192, 168, 0, 5>>, 24)
                 => result.value.networkInt = AddressValue(Dotted(<<192, 168, 0, 0>>))

\* C8: parseCidr fails with "Invalid prefix" whenever the text after '/' is
\* not an integer in [0, 32] (empty, non-numeric, below 0, above 32).
C8_InvalidPrefixRejected ==
    (ParseCidrDone /\ Len(Split(cidr, "/")) = 2 /\ ~WellFormedPrefix(PrefixPart(cidr))) =>
        result = Throw("Invalid prefix")

\* C9: parseCidr and allocateVlsm fail whenever the address text is not
\* exactly 4 dot-separated decimal octets in [0, 255]; no range and no
\* allocation is produced from such an address.
C9_InvalidAddressRejected ==
    ((ParseCidrDone \/ AllocateDone) /\ Len(Split(cidr, "/")) = 2
        /\ ~WellFormedAddress(AddressPart(cidr))) => result.threw

\* the fields of a record for network n, prefix p, requested count r
RecordAsSpecified(rec, n, p, r) ==
    LET total == JsPow2(N(32 - p))
        first == ipToInt(rec.first_usable)
        last == ipToInt(rec.last_usable)
        broadcast == ipToInt(rec.broadcast)
    IN  /\ rec.prefix = p
        /\ rec.requested_hosts = r
        /\ rec.total_addresses = total
        /\ rec.wasted_addresses = JsSub(total, r)
        /\ p = 32 => rec.usable_hosts = N(1) /\ first = n /\ last = n /\ broadcast = n
        /\ p = 31 => /\ rec.usable_hosts = N(0)
                     /\ first = n
                     /\ last = JsAdd(n, N(1))
                     /\ broadcast = JsAdd(n, N(1))
        /\ p < 31 => /\ rec.usable_hosts = JsSub(total, N(2))
                     /\ first = JsAdd(n, N(1))
                     /\ last = JsSub(JsAdd(n, total), N(2))
                     /\ broadcast = JsSub(JsAdd(n, total), N(1))

\* C10: every record built for network n at prefix p with requested count r
\* has total_addresses = 2^(32-p), wasted_addresses = total - r and:
\* p = 32: usable 1, first = last = broadcast = n; p = 31: usable 0,
\* first = n, last = broadcast = n + 1; otherwise usable = total - 2,
\* first = n + 1, last = n + total - 2, broadcast = n + total - 1.
\* Checked on the records allocateVlsm builds and on subnetInfo applied to
\* every prefix directly (allocateVlsm never derives /31).
C10_RecordFields ==
    /\ \A i \in 1..Len(allocations) :
        RecordAsSpecified(allocations[i], ipToInt(allocations[i].network),
                          reqs[i].prefix, reqs[i].requested)
    /\ (fn = "subnetInfo" /\ pc = "done") =>
        /\ result.value.network = intToIp(subnetArgs.networkInt)
        /\ RecordAsSpecified(result.value, subnetArgs.networkInt, subnetArgs.prefix, hosts[1])

C10_Witness ==
    /\ AllocateSucceeded
    /\ Len(allocations) = 3
    /\ allocations[1].prefix < 31
    /\ allocations[3].prefix = 32

C10_WitnessWholeSpace ==
    AllocateSucceeded /\ Len(allocations) = 1 /\ allocations[1].prefix = 0

C10_WitnessPointToPoint ==
    fn = "subnetInfo" /\ pc = "done" /\ subnetArgs.prefix = 31 /\ result.value.usable_hosts = N(0)

\* a is a multiple of the block size 2^k
MultipleOfBlock(a, k) == ~IsNaN(a) /\ ClearLow(a, k) = a

PlacementErrors ==
    {"not enough space after alignment", "Allocated network falls outside primary", "Overlap"}

\* the placement loop or the final overlap verification threw
PlacementFailed == AllocateDone /\ result.threw /\ result.error \in PlacementErrors

\* no alignment padding: the cursor is a multiple of the next block size, the
\* first record starts at the primary network start, each later record at
\* the previous record's broadcast + 1, every record's network is a multiple
\* of its own block size, and neither placement error is thrown
PlacedWithoutPadding ==
    /\ (pc = "loop" /\ idx <= Len(reqs)) => MultipleOfBlock(current, 32 - reqs[idx].prefix)
    /\ \A i \in 1..Len(allocations) :
        /\ MultipleOfBlock(ipToInt(allocations[i].network), 32 - allocations[i].prefix)
        /\ i = 1 => ipToInt(allocations[i].network) = ToUint32(primary.networkInt)
        /\ i > 1 => ipToInt(allocations[i].network)
                      = JsAdd(ipToInt(allocations[i - 1].broadcast), N(1))
    /\ ~PlacementFailed

\* C11: whenever the capacity pre-check of allocateVlsm passes, every
\* placement succeeds without alignment padding (cursor already a multiple of
\* the next block size, first record at the primary start, each later record
\* at the previous broadcast + 1, every network a multiple of its block
\* size) and neither the out-of-bounds nor the overlap failure is reachable.
C11_NoPaddingNoPlacementFailure == fn = "allocateVlsm" => PlacedWithoutPadding

\* the same on primaries whose prefix text parseCidr turns into a number
C11_OnNumericPrefix ==
    (fn = "allocateVlsm" /\ ~IsNaN(primary.prefix)) => PlacedWithoutPadding

C11_OnNumericPrefixWitness ==
    /\ AllocateSucceeded
    /\ ~IsNaN(primary.prefix)
    /\ Len(allocations) = 3
    /\ allocations[1].prefix < allocations[2].prefix
    /\ allocations[2].prefix < allocations[3].prefix

====
